---------------------------- MODULE Spec2Model ----------------------------
(* Lease arbitration engine of display-distributor: the Distributor's card *)
(* and lease registries, the request/release handlers, and the kernel DRM  *)
(* lease objects the Cards create and revoke.                              *)
EXTENDS Integers, Sequences, FiniteSets, TLC

(* ---------------------------------------------------------------------- *)
(* Bounds                                                                  *)
(* ---------------------------------------------------------------------- *)
MaxPid == 3
MaxConn == 2
MaxSuffixLen == 4

Pids == 1..MaxPid
Seats == {"seat0", "seat1"}
CardPaths == {"card0", "card1"}

NoPid == 0

(* lib.rs: the response enum, plus the marker for a connection that is   *)
(* closed with Err and no response written.                               *)
ServerMessage ==
  {"LeaseGranted", "LeaseRevoked", "LeaseNotFound", "NoPermission", "SeatBusy", "NoDisplays"}
ClientMessage == {"RequestDisplays", "ReleaseDisplays"}
NoResponse == "NoResponse"

VARIABLES
  cards,      \* Distributor.cards: key set of the card registry
  displays,   \* Card.displays: per card, the seats that have an entry
  leases,     \* Distributor.leases: seat -> Lease
  kleases,    \* kernel: active DRM leases, [card, lessee_id, fd, seat]
  lesseeCnt,  \* kernel: per card, the last lessee id handed out
  nextFd,     \* daemon fd table: next descriptor number
  alive,      \* OS: live client processes
  granted,    \* client side: pid -> the Lease it was sent with LeaseGranted and
              \* has not been answered LeaseRevoked for
  resp,       \* outcome of the last handled connection
  nconn,      \* number of connections handled
  wire,       \* the last connection's request: [sent: the bytes the peer wrote,
              \* raw: whether handle_client read and decoded them itself]
  listening,  \* listen_clients is in its accept loop
  unit        \* last direct application of a function: [op, input, output]

vars == <<cards, displays, leases, kleases, lesseeCnt, nextFd, alive,
          granted, resp, nconn, wire, listening, unit>>

(* ---------------------------------------------------------------------- *)
(* Helpers                                                                 *)
(* ---------------------------------------------------------------------- *)
RECURSIVE Perms(_)
Perms(S) ==
  IF S = {} THEN {<<>>}
  ELSE UNION {{<<x>> \o p : p \in Perms(S \ {x})} : x \in S}

Range(s) == {s[i] : i \in 1..Len(s)}

(* ProcessSeat::process_seat: the seat login1 reports for a process; odd *)
(* pids sit on seat0, even pids on seat1.                                 *)
process_seat(pid) == IF pid % 2 = 1 THEN "seat0" ELSE "seat1"

(* bincode writes the variant of a unit enum as a u32 *)
bincode_tag_len == 4

(* a request buffer as wide as the encoded request *)
size_of_encoded_request == bincode_tag_len

(* size_of::<ClientMessage>(): a fieldless enum of two variants *)
size_of_ClientMessage == 1

(* position of a variant in its enum declaration *)
variant_index(m) ==
  CASE m = "RequestDisplays" -> 0
    [] m = "ReleaseDisplays" -> 1
    [] m = "LeaseGranted" -> 0
    [] m = "LeaseRevoked" -> 1
    [] m = "LeaseNotFound" -> 2
    [] m = "NoPermission" -> 3
    [] m = "SeatBusy" -> 4
    [] m = "NoDisplays" -> 5

(* bincode::serialize of a unit variant: the index, little endian *)
serialize(m) ==
  [i \in 1..bincode_tag_len |-> IF i = 1 THEN variant_index(m) % 256 ELSE 0]

DecodeError == "DecodeError"

(* bincode::deserialize into the enum `variants`: too few bytes for the   *)
(* tag is UnexpectedEof, a tag that names no variant is an error.         *)
deserialize(bytes, variants) ==
  IF Len(bytes) < bincode_tag_len THEN DecodeError
  ELSE LET tag == bytes[1] + 256 * bytes[2] + 65536 * bytes[3] + 16777216 * bytes[4]
           hit == {m \in variants : variant_index(m) = tag}
       IN IF hit = {} THEN DecodeError ELSE CHOOSE m \in hit : TRUE

(* `let mut bytes = [0; size]; stream.read(&mut bytes)`: the buffer holds *)
(* the first bytes the peer sent and zeroes where nothing was read; the   *)
(* count read() returns is dropped.                                       *)
read_request(sent, size) ==
  [i \in 1..size |-> IF i <= Len(sent) THEN sent[i] ELSE 0]

(* the accept loop left through the error, as `handle_client(stream)?` would *)
after_client_propagate(err) == err = "Ok"

(* listen_clients after handle_client returned: an Err is logged and the  *)
(* loop continues with the next incoming connection.                      *)
after_client(err) == TRUE

(* Lease::new *)
Lease_new(pid) == [pid |-> pid, lease_fds |-> <<>>, infos |-> <<>>]

(* the descriptor goes to the front of lease_fds, the info to the back *)
add_displays_front(lease, card_node, fd, lessee_id) ==
  [lease EXCEPT !.lease_fds = <<fd>> \o @,
                !.infos = Append(@, [card_node |-> card_node, lessee_id |-> lessee_id])]

(* Lease::add_displays: push the fd and the (card_node, lessee_id) info *)
add_displays(lease, card_node, fd, lessee_id) ==
  [lease EXCEPT !.lease_fds = Append(@, fd),
                !.infos = Append(@, [card_node |-> card_node, lessee_id |-> lessee_id])]

(* is_process_exist: kill(pid, 0) == 0.  The probe returns 0 only for a   *)
(* live process the daemon may signal; ESRCH and EPERM both give false.   *)
is_process_exist(pid, live, eperm) == pid \in live /\ ~eperm

(* the lease takes the connectors of every seat of the card: the check   *)
(* of the connector against the seat's displays is missing                *)
lease_displays_all_seats(card, seat, k, kok) ==
  IF seat \notin displays[card] THEN [err |-> "NoDisplays", k |-> k, fd |-> 0, lessee_id |-> 0]
  ELSE IF ~kok THEN [err |-> "Io", k |-> k, fd |-> 0, lessee_id |-> 0]
  ELSE LET id == k.cnt[card] + 1 IN
       [err |-> "Ok",
        k |-> [leases |-> k.leases \cup
                            {[card |-> card, lessee_id |-> id, fd |-> k.fd, seat |-> x] :
                               x \in displays[card]},
               cnt |-> [k.cnt EXCEPT ![card] = id],
               fd |-> k.fd + 1],
        fd |-> k.fd, lessee_id |-> id]

(* Card::lease_displays on kernel state k = [leases, cnt, fd].            *)
(* displays.get(seat) is None -> Err(NoDisplays); a failing kernel call   *)
(* (resource_handles, get_connector, get_encoder, create_lease) -> Err;   *)
(* otherwise a new kernel lease with a fresh lessee id and descriptor.    *)
lease_displays(card, seat, k, kok) ==
  IF seat \notin displays[card] THEN [err |-> "NoDisplays", k |-> k, fd |-> 0, lessee_id |-> 0]
  ELSE IF ~kok THEN [err |-> "Io", k |-> k, fd |-> 0, lessee_id |-> 0]
  ELSE LET id == k.cnt[card] + 1 IN
       [err |-> "Ok",
        k |-> [leases |-> k.leases \cup
                            {[card |-> card, lessee_id |-> id, fd |-> k.fd, seat |-> seat]},
               cnt |-> [k.cnt EXCEPT ![card] = id],
               fd |-> k.fd + 1],
        fd |-> k.fd, lessee_id |-> id]

(* Card::revoke_displays: revoking an unknown lessee id, or a failing     *)
(* kernel call, is an error; otherwise the kernel lease is gone.          *)
revoke_displays(card, lessee_id, kl, rok) ==
  LET hit == {l \in kl : l.card = card /\ l.lessee_id = lessee_id} IN
  IF hit = {} \/ ~rok THEN [err |-> "Io", kl |-> kl]
  ELSE [err |-> "Ok", kl |-> kl \ hit]

(* the for loop of handle_request_displays over self.cards.iter(), in the *)
(* iteration order `order`; `?` leaves the loop at the first Err.         *)
RECURSIVE request_loop(_, _, _, _, _)
request_loop(order, seat, lease, k, kok) ==
  IF order = <<>> THEN [err |-> "Ok", lease |-> lease, k |-> k]
  ELSE LET card_node == Head(order)
           r == lease_displays(card_node, seat, k, kok[card_node])
       IN IF r.err # "Ok" THEN [err |-> r.err, lease |-> lease, k |-> r.k]
          ELSE request_loop(Tail(order), seat,
                            add_displays(lease, card_node, r.fd, r.lessee_id), r.k, kok)

(* the for loop of revoke_lease over lease.infos: a missing card or a     *)
(* failed revoke is logged and skipped.  Returns the kernel leases and    *)
(* the (card, lessee id) pairs revoke was called for.                     *)
RECURSIVE revoke_loop(_, _, _, _)
revoke_loop(infos, kl, rok, calls) ==
  IF infos = <<>> THEN [kl |-> kl, calls |-> calls]
  ELSE LET info == Head(infos) IN
       IF info.card_node \notin cards
       THEN revoke_loop(Tail(infos), kl, rok, calls)
       ELSE LET r == revoke_displays(info.card_node, info.lessee_id, kl, rok[info.card_node])
            IN revoke_loop(Tail(infos), r.kl, rok,
                           Append(calls, <<info.card_node, info.lessee_id>>))

(* the record left by one handled connection *)
Outcome(pid, seat, req, msg, fds, err, calls) ==
  [pid |-> pid, seat |-> seat, req |-> req, msg |-> msg, fds |-> fds, err |-> err,
   calls |-> calls]

(* ServerMessageSend: the write either delivers the message (and the      *)
(* descriptors) or fails with an IO error and nothing is delivered.       *)
send_msg_fds(pid, seat, req, message, fds, sendOk, calls) ==
  IF sendOk THEN Outcome(pid, seat, req, message, fds, "Ok", calls)
  ELSE Outcome(pid, seat, req, NoResponse, <<>>, "Io", calls)

send_msg(pid, seat, req, message, sendOk) ==
  send_msg_fds(pid, seat, req, message, <<>>, sendOk, <<>>)

(* LeaseSend::send_lease *)
send_lease(pid, seat, lease, sendOk) ==
  send_msg_fds(pid, seat, "RequestDisplays", "LeaseGranted", lease.lease_fds, sendOk, <<>>)

(* ---------------------------------------------------------------------- *)
(* Initial state: Distributor::new after scan_devices                      *)
(* ---------------------------------------------------------------------- *)
Init ==
  /\ cards \in SUBSET CardPaths
  /\ displays \in [cards -> SUBSET Seats]
  /\ leases = <<>>
  /\ kleases = {}
  /\ lesseeCnt = [c \in CardPaths |-> 0]
  /\ nextFd = 0
  /\ alive = Pids
  /\ granted = <<>>
  /\ resp = Outcome(NoPid, "seat0", "RequestDisplays", NoResponse, <<>>, "Ok", <<>>)
  /\ nconn = 0
  /\ wire = [sent |-> <<>>, raw |-> FALSE]
  /\ listening = TRUE
  /\ unit = [op |-> "none", input |-> <<>>, output |-> <<>>]

(* ---------------------------------------------------------------------- *)
(* Handlers                                                                *)
(* ---------------------------------------------------------------------- *)
(* Distributor::handle_request_displays *)
handle_request_displays(peer_pid, peer_seat, order, kok, eperm, sendOk) ==
  IF peer_seat \in DOMAIN leases /\ is_process_exist(leases[peer_seat].pid, alive, eperm)
  THEN /\ resp' = send_msg(peer_pid, peer_seat, "RequestDisplays", "SeatBusy", sendOk)
       /\ UNCHANGED <<leases, kleases, lesseeCnt, nextFd, granted>>
  ELSE LET r == request_loop(order, peer_seat, Lease_new(peer_pid),
                             [leases |-> kleases, cnt |-> lesseeCnt, fd |-> nextFd], kok)
       IN /\ kleases' = r.k.leases
          /\ lesseeCnt' = r.k.cnt
          /\ nextFd' = r.k.fd
          /\ resp' = IF r.err # "Ok"
                     THEN Outcome(peer_pid, peer_seat, "RequestDisplays", NoResponse, <<>>,
                                  r.err, <<>>)
                     ELSE send_lease(peer_pid, peer_seat, r.lease, sendOk)
          /\ granted' = IF r.err = "Ok" /\ sendOk
                        THEN [p \in DOMAIN granted \cup {peer_pid} |->
                                IF p = peer_pid THEN r.lease ELSE granted[p]]
                        ELSE granted
          /\ UNCHANGED leases

(* Distributor::revoke_lease *)
revoke_lease(peer_pid, peer_seat, lease, rok, sendOk) ==
  LET r == revoke_loop(lease.infos, kleases, rok, <<>>) IN
  /\ kleases' = r.kl
  /\ resp' = send_msg_fds(peer_pid, peer_seat, "ReleaseDisplays", "LeaseRevoked",
                          lease.lease_fds, sendOk, r.calls)
  /\ granted' = IF sendOk THEN [p \in DOMAIN granted \ {peer_pid} |-> granted[p]]
                ELSE granted

(* Distributor::handle_release_displays *)
handle_release_displays(peer_pid, peer_seat, rok, sendOk) ==
  IF peer_seat \in DOMAIN leases
  THEN IF leases[peer_seat].pid = peer_pid
       THEN /\ leases' = [s \in DOMAIN leases \ {peer_seat} |-> leases[s]]
            /\ revoke_lease(peer_pid, peer_seat, leases[peer_seat], rok, sendOk)
            /\ UNCHANGED <<lesseeCnt, nextFd>>
       ELSE /\ resp' = send_msg(peer_pid, peer_seat, "ReleaseDisplays", "NoPermission", sendOk)
            /\ UNCHANGED <<leases, kleases, lesseeCnt, nextFd, granted>>
  ELSE /\ resp' = send_msg(peer_pid, peer_seat, "ReleaseDisplays", "LeaseNotFound", sendOk)
       /\ UNCHANGED <<leases, kleases, lesseeCnt, nextFd, granted>>

(* Distributor::handle_client_message, for a connection of peer_pid whose *)
(* request decoded to RequestDisplays.                                    *)
RequestDisplays ==
  \E peer_pid \in alive, order \in Perms(cards), kok \in [cards -> BOOLEAN],
     eperm \in BOOLEAN, sendOk \in BOOLEAN :
    /\ listening
    /\ nconn < MaxConn
    /\ nconn' = nconn + 1
    /\ handle_request_displays(peer_pid, process_seat(peer_pid), order, kok, eperm, sendOk)
    /\ wire' = [sent |-> serialize("RequestDisplays"), raw |-> FALSE]
    /\ listening' = after_client(resp'.err)
    /\ UNCHANGED <<cards, displays, alive, unit>>

(* Distributor::handle_client_message, request decoded to ReleaseDisplays *)
ReleaseDisplays ==
  \E peer_pid \in alive, rok \in [cards -> BOOLEAN], sendOk \in BOOLEAN :
    /\ listening
    /\ nconn < MaxConn
    /\ nconn' = nconn + 1
    /\ handle_release_displays(peer_pid, process_seat(peer_pid), rok, sendOk)
    /\ wire' = [sent |-> serialize("ReleaseDisplays"), raw |-> FALSE]
    /\ listening' = after_client(resp'.err)
    /\ UNCHANGED <<cards, displays, alive, unit>>

(* a client that was granted a lease exits; the daemon is not told.  The  *)
(* exit of a process that holds nothing only stops it from connecting    *)
(* again, which its not connecting already covers.                       *)
ProcessExit ==
  \E pid \in alive \cap DOMAIN granted :
    /\ alive' = alive \ {pid}
    /\ UNCHANGED <<cards, displays, leases, kleases, lesseeCnt, nextFd, granted,
                   resp, nconn, wire, listening, unit>>

(* what a peer may write before the daemon reads: every prefix of an      *)
(* encoded request, and an encoded tag that names no variant              *)
WireInputs ==
  {SubSeq(serialize(m), 1, n) : m \in ClientMessage, n \in 0..bincode_tag_len}
    \cup {[serialize("RequestDisplays") EXCEPT ![1] = 2]}

(* the ways a connection fails before its request is read *)
Faults == {"none", "Accept", "NoPeerPid", "Seat", "PeerBadMsg"}

(* one iteration of listen_clients: Distributor::handle_client from the   *)
(* accepted stream on.  `fault` is the first step that fails: the accept, *)
(* the peer credentials, the seat lookup or the read; nothing of the      *)
(* request is read then.                                                  *)
HandleClient ==
  \E peer_pid \in alive, fault \in Faults :
    /\ listening
    /\ nconn < MaxConn
    /\ nconn' = nconn + 1
    /\ IF fault # "none"
       THEN /\ resp' = Outcome(IF fault \in {"Accept", "NoPeerPid"} THEN NoPid ELSE peer_pid,
                               process_seat(peer_pid), "None", NoResponse, <<>>, fault, <<>>)
            /\ wire' = [sent |-> <<>>, raw |-> TRUE]
            /\ UNCHANGED <<leases, kleases, lesseeCnt, nextFd, granted>>
       ELSE \E sent \in WireInputs :
              LET peer_seat == process_seat(peer_pid)
                  message == deserialize(read_request(sent, size_of_ClientMessage),
                                         ClientMessage)
              IN /\ wire' = [sent |-> sent, raw |-> TRUE]
                 /\ IF message = DecodeError
                    THEN /\ resp' = Outcome(peer_pid, peer_seat, "None", NoResponse, <<>>,
                                            "Decode", <<>>)
                         /\ UNCHANGED <<leases, kleases, lesseeCnt, nextFd, granted>>
                    ELSE \E order \in Perms(cards), kok \in [cards -> BOOLEAN],
                            eperm \in BOOLEAN, sendOk \in BOOLEAN :
                           IF message = "RequestDisplays"
                           THEN handle_request_displays(peer_pid, peer_seat, order, kok,
                                                        eperm, sendOk)
                           ELSE handle_release_displays(peer_pid, peer_seat, kok, sendOk)
    /\ listening' = after_client(resp'.err)
    /\ UNCHANGED <<cards, displays, alive, unit>>

Next == RequestDisplays \/ ReleaseDisplays \/ ProcessExit \/ HandleClient

Spec == Init /\ [][Next]_vars

(* ---------------------------------------------------------------------- *)
(* Functions applied directly to bounded inputs                            *)
(* ---------------------------------------------------------------------- *)
(* names are sequences of characters *)
Card0Name == <<"c", "a", "r", "d", "0">>
Dash == "-"
Digits == <<"0", "1", "2", "3", "4", "5", "6", "7", "8", "9">>
IsDigit(c) == \E i \in 1..Len(Digits) : Digits[i] = c
DigitValue(c) == (CHOOSE i \in 1..Len(Digits) : Digits[i] = c) - 1

RECURSIVE SeqsUpTo(_, _)
SeqsUpTo(S, n) ==
  IF n = 0 THEN {<<>>}
  ELSE LET shorter == SeqsUpTo(S, n - 1)
       IN shorter \cup {Append(q, c) : q \in shorter, c \in S}

(* connector name suffixes: every short text over a letter, the dash, a   *)
(* digit and the plus sign, and the connector names of the documentation  *)
Suffixes ==
  SeqsUpTo({"A", Dash, "1", "+"}, MaxSuffixLen)
    \cup {<<"H", "D", "M", "I", "-", "A", "-", "1">>, <<"D", "P", "-", "1">>,
          <<"e", "D", "P", "-", "1">>, <<"H", "D", "M", "I", "-", "A">>}

(* connector sysnames: with the GPU name and the dash in front, or bare *)
DevNames == {Card0Name \o <<Dash>> \o x : x \in Suffixes} \cup Suffixes

(* str::split: the parts between the separators, k separators give k + 1 *)
(* parts, empty ones included                                             *)
RECURSIVE split(_, _)
split(value, sep) ==
  IF \A i \in 1..Len(value) : value[i] # sep THEN <<value>>
  ELSE LET i == CHOOSE k \in 1..Len(value) :
                  value[k] = sep /\ \A j \in 1..(k - 1) : value[j] # sep
       IN <<SubSeq(value, 1, i - 1)>> \o split(SubSeq(value, i + 1, Len(value)), sep)

RECURSIVE decimal(_)
decimal(ds) ==
  IF ds = <<>> THEN 0 ELSE 10 * decimal(SubSeq(ds, 1, Len(ds) - 1)) + DigitValue(ds[Len(ds)])

(* str::parse::<u32>: an optional plus sign, then one or more digits and  *)
(* nothing else.  The inputs here are too short to exceed u32::MAX.       *)
parse_u32(part) ==
  LET ds == IF part # <<>> /\ part[1] = "+" THEN Tail(part) ELSE part IN
  IF ds = <<>> \/ \E i \in 1..Len(ds) : ~IsDigit(ds[i])
  THEN [ok |-> FALSE, value |-> 0]
  ELSE [ok |-> TRUE, value |-> decimal(ds)]

ParseErr == [status |-> "UnableToParseDisplayId", kind |-> <<>>, id |-> 0]

(* the parse the documentation describes: the instance number is the     *)
(* text after the last dash, the interface kind the text before it        *)
DisplayId_try_from_rsplit(value) ==
  LET dashes == {i \in 1..Len(value) : value[i] = Dash} IN
  IF dashes = {} THEN ParseErr
  ELSE LET last == CHOOSE i \in dashes : \A j \in dashes : j <= i
           id == parse_u32(SubSeq(value, last + 1, Len(value)))
       IN IF ~id.ok THEN ParseErr
          ELSE [status |-> "Ok", kind |-> SubSeq(value, 1, last - 1), id |-> id.value]

(* TryFrom<&str> for DisplayId: split on the dash, the first part is the  *)
(* interface (its bytes go into connector::Interface), the second part is *)
(* parsed as the u32 instance number; further parts are not looked at.    *)
DisplayId_try_from(value) ==
  LET parts == split(value, Dash) IN
  IF Len(parts) < 2 THEN ParseErr
  ELSE LET id == parse_u32(parts[2]) IN
       IF ~id.ok THEN ParseErr
       ELSE [status |-> "Ok", kind |-> parts[1], id |-> id.value]

(* str::strip_prefix *)
strip_prefix(name, prefix) ==
  IF Len(name) >= Len(prefix) /\ SubSeq(name, 1, Len(prefix)) = prefix
  THEN [some |-> TRUE, rest |-> SubSeq(name, Len(prefix) + 1, Len(name))]
  ELSE [some |-> FALSE, rest |-> <<>>]

(* Distributor::process_device for a connector with a seat: the name      *)
(* without the GPU name and the dash is parsed; a name without that       *)
(* prefix panics in expect().                                             *)
process_device(gpu_name, dev_name) ==
  LET display_name == strip_prefix(dev_name, gpu_name \o <<Dash>>) IN
  IF ~display_name.some THEN [status |-> "Panic", kind |-> <<>>, id |-> 0]
  ELSE DisplayId_try_from(display_name.rest)

(* errno of kill(pid, 0) *)
kill_errno(pid, live, eperm) ==
  IF pid \notin live THEN "ESRCH" ELSE IF eperm THEN "EPERM" ELSE "none"

UnitFrame ==
  UNCHANGED <<cards, displays, leases, kleases, lesseeCnt, nextFd, alive, granted, resp,
              nconn, wire, listening>>

(* process_device applied to one connector of card0 *)
ParseConnector ==
  \E dev_name \in DevNames :
    /\ unit' = [op |-> "process_device", input |-> dev_name,
                output |-> process_device(Card0Name, dev_name)]
    /\ UnitFrame

(* is_process_exist applied to one pid *)
ProbeProcess ==
  \E pid \in Pids, eperm \in BOOLEAN :
    /\ unit' = [op |-> "is_process_exist",
                input |-> <<pid, kill_errno(pid, alive, eperm)>>,
                output |-> is_process_exist(pid, alive, eperm)]
    /\ UnitFrame

(* the daemon at startup, with any set of the client processes running *)
InitUnit ==
  /\ cards = {}
  /\ displays = <<>>
  /\ leases = <<>>
  /\ kleases = {}
  /\ lesseeCnt = [c \in CardPaths |-> 0]
  /\ nextFd = 0
  /\ alive \in SUBSET Pids
  /\ granted = <<>>
  /\ resp = Outcome(NoPid, "seat0", "RequestDisplays", NoResponse, <<>>, "Ok", <<>>)
  /\ nconn = 0
  /\ wire = [sent |-> <<>>, raw |-> FALSE]
  /\ listening = TRUE
  /\ unit = [op |-> "none", input |-> <<>>, output |-> <<>>]

NextUnit == ParseConnector \/ ProbeProcess

SpecUnit == InitUnit /\ [][NextUnit]_vars

(* ---------------------------------------------------------------------- *)
(* Steps and client-side views used by the properties                      *)
(* ---------------------------------------------------------------------- *)
(* this step handled a connection of pid p carrying request req *)
Exchange(p, req) == nconn' = nconn + 1 /\ resp'.pid = p /\ resp'.req = req

(* live clients that hold a grant for seat s *)
Holders(s) == {p \in DOMAIN granted \cap alive : process_seat(p) = s}

(* clients, dead or alive, that hold a grant for seat s *)
EverHolders(s) == {p \in DOMAIN granted : process_seat(p) = s}

(* the (card, lessee id) pairs of a Lease *)
Triples(lease) == {<<lease.infos[i].card_node, lease.infos[i].lessee_id, lease.lease_fds[i]>> :
                     i \in 1..Len(lease.infos)}

(* no handler inserts into Distributor.leases: the registry stays empty *)
RegistryEmpty == DOMAIN leases = {}

(* ---------------------------------------------------------------------- *)
(* C1..C10                                                                 *)
(* ---------------------------------------------------------------------- *)

(* C1: once P1 was answered LeaseGranted on seat S and is still alive, a   *)
(* RequestDisplays from another pid P2 on S that meets no IO error is      *)
(* answered SeatBusy, creates no kernel lease and leaves the registry      *)
(* unchanged.                                                              *)
C1_SecondRequestBusy ==
  [][\A p1 \in Pids, p2 \in Pids :
       (/\ p1 # p2
        /\ p1 \in Holders(process_seat(p2))
        /\ Exchange(p2, "RequestDisplays")
        /\ resp'.err = "Ok")
       => (resp'.msg = "SeatBusy" /\ kleases' = kleases /\ leases' = leases)]_vars

(* C2: when a RequestDisplays from P on a seat S without a Lease is        *)
(* answered LeaseGranted, the registry afterwards maps S to a Lease of pid *)
(* P holding one triple for every kernel lease created by that request.    *)
C2_GrantInstallsLease ==
  [][\A p \in Pids :
       (/\ Exchange(p, "RequestDisplays")
        /\ resp'.msg = "LeaseGranted"
        /\ process_seat(p) \notin DOMAIN leases)
       => (/\ process_seat(p) \in DOMAIN leases'
           /\ leases'[process_seat(p)].pid = p
           /\ Triples(leases'[process_seat(p)]) =
                {<<l.card, l.lessee_id, l.fd>> : l \in kleases' \ kleases})]_vars

(* C3: no two distinct live clients hold a granted, unreleased lease for   *)
(* the same seat.                                                          *)
C3_OneHolderPerSeat ==
  \A s \in Seats : Cardinality(Holders(s)) <= 1

(* C4: when every holder of seat S is dead, a RequestDisplays from a new   *)
(* pid P on S that meets no error is answered LeaseGranted and the         *)
(* registry's Lease for S is afterwards owned by P.                        *)
C4_DeadHolderSuperseded ==
  [][\A p \in Pids :
       (/\ EverHolders(process_seat(p)) # {}
        /\ Holders(process_seat(p)) = {}
        /\ p \notin DOMAIN granted
        /\ Exchange(p, "RequestDisplays")
        /\ resp'.err = "Ok")
       => (/\ resp'.msg = "LeaseGranted"
           /\ process_seat(p) \in DOMAIN leases'
           /\ leases'[process_seat(p)].pid = p)]_vars

(* C5: after seat S was granted to P, a ReleaseDisplays from P that meets  *)
(* no IO error is answered LeaseRevoked and leaves no Lease for S in the   *)
(* registry.                                                               *)
C5_OwnerReleaseRevokes ==
  [][\A p \in Pids :
       (/\ p \in DOMAIN granted
        /\ Exchange(p, "ReleaseDisplays")
        /\ resp'.err = "Ok")
       => (resp'.msg = "LeaseRevoked" /\ process_seat(p) \notin DOMAIN leases')]_vars

(* C6: after seat S was granted to P, a ReleaseDisplays on S from a pid Q  *)
(* that is not P is answered NoPermission, calls revoke on no Card and     *)
(* leaves the registry and the kernel leases unchanged.                    *)
C6_ForeignReleaseDenied ==
  [][\A p \in Pids, q \in Pids :
       (/\ p # q
        /\ p \in Holders(process_seat(q))
        /\ q \notin DOMAIN granted
        /\ Exchange(q, "ReleaseDisplays")
        /\ resp'.err = "Ok")
       => (/\ resp'.msg = "NoPermission"
           /\ resp'.calls = <<>>
           /\ leases' = leases
           /\ kleases' = kleases)]_vars

(* C8: a RequestDisplays on a seat that is not busy and meets no IO error  *)
(* is answered LeaseGranted with exactly one descriptor per Card that has  *)
(* displays registered for the seat; Cards without displays for the seat   *)
(* contribute nothing and do not fail the request.                         *)
C8_EmptyCardContributesNothing ==
  [][\A p \in Pids :
       (/\ Exchange(p, "RequestDisplays")
        /\ process_seat(p) \notin DOMAIN leases
        /\ Holders(process_seat(p)) = {}
        /\ resp'.err # "Io")
       => (/\ resp'.msg = "LeaseGranted"
           /\ Len(resp'.fds) =
                Cardinality({c \in cards : process_seat(p) \in displays[c]}))]_vars

(* C9: every decoded request whose handling meets no IO error is answered  *)
(* with a typed ServerMessage; no protocol outcome ends the connection     *)
(* with an Err and no response.                                            *)
C9_AlwaysTypedResponse ==
  (nconn > 0 /\ resp.req \in ClientMessage /\ resp.err # "Io") => resp.msg \in ServerMessage

(* C10: an owner's ReleaseDisplays for a Lease with at least one triple    *)
(* attempts revoke for every triple whose Card is in the registry,         *)
(* whatever the single revokes return, and is answered LeaseRevoked        *)
(* carrying the Lease's descriptors.                                       *)
C10_ReleaseRevokesEveryTriple ==
  [][\A p \in Pids :
       (/\ p \in DOMAIN granted
        /\ granted[p].infos # <<>>
        /\ Exchange(p, "ReleaseDisplays")
        /\ resp'.err = "Ok")
       => (/\ resp'.msg = "LeaseRevoked"
           /\ {<<t[1], t[2]>> : t \in {u \in Triples(granted[p]) : u[1] \in cards}}
                = Range(resp'.calls)
           /\ resp'.fds = granted[p].lease_fds)]_vars
(* ---------------------------------------------------------------------- *)
(* C11..C20                                                                *)
(* ---------------------------------------------------------------------- *)

(* this step handled one connection *)
Connection == nconn' = nconn + 1

(* C11: a connection that ends in an error (accept, credentials, seat,     *)
(* read, decode or handler error) leaves the accept loop running and the   *)
(* Card and Lease registries as they were.                                 *)
C11_FailureKeepsLoop ==
  [][(Connection /\ resp'.err # "Ok")
       => (/\ listening'
           /\ cards' = cards
           /\ displays' = displays
           /\ leases' = leases)]_vars

(* C11 witness: a first connection failed in its handler after creating    *)
(* one kernel lease, and the next connection was accepted and granted two. *)
C11_Witness ==
  /\ nconn = 2
  /\ listening
  /\ resp.msg = "LeaseGranted"
  /\ Len(resp.fds) = 2
  /\ Cardinality(kleases) = 3

(* C12: the bytes that encode a ClientMessage variant, read and decoded by *)
(* handle_client, are dispatched as that variant.                          *)
C12_RequestRoundTrip ==
  [][\A m \in ClientMessage :
       (/\ Connection
        /\ wire'.raw
        /\ wire'.sent = serialize(m)
        /\ resp'.err \notin {"Accept", "NoPeerPid", "Seat", "PeerBadMsg"})
       => resp'.req = m]_vars

(* C13: when the peer sent fewer bytes than one encoded request, the       *)
(* connection ends in a read or decode error: no handler is dispatched, no *)
(* kernel lease is created or revoked and no registry changes.             *)
C13_ShortRequestRejected ==
  [][(/\ Connection
      /\ wire'.raw
      /\ Len(wire'.sent) < bincode_tag_len
      /\ resp'.err \notin {"Accept", "NoPeerPid", "Seat"})
       => (/\ resp'.err \in {"PeerBadMsg", "Decode"}
           /\ resp'.req = "None"
           /\ resp'.msg = NoResponse
           /\ kleases' = kleases
           /\ leases' = leases
           /\ cards' = cards
           /\ granted' = granted)]_vars

(* C13 witness: a peer that sent nothing was turned away at decoding *)
C13_Witness ==
  /\ nconn > 0
  /\ wire.raw
  /\ wire.sent = <<>>
  /\ resp.err = "Decode"
  /\ resp.pid # NoPid
(* the connector name of the last process_device, without "card0-" *)
ParsedSuffix == SubSeq(unit.input, Len(Card0Name) + 2, Len(unit.input))

(* C14: a connector name "card0-<kind>-<n>" without empty components       *)
(* parses to the kind before the last dash and the instance number n after *)
(* it ("HDMI-A-1" gives kind HDMI-A, instance 1); a suffix whose last      *)
(* component is no number fails.                                           *)
C14_ParseKindAndInstance ==
  (/\ unit.op = "process_device"
   /\ strip_prefix(unit.input, Card0Name \o <<Dash>>).some
   /\ \A part \in Range(split(ParsedSuffix, Dash)) : part # <<>>)
  => unit.output = DisplayId_try_from_rsplit(ParsedSuffix)

(* C15: the liveness probe counts every outcome of the existence signal    *)
(* other than "no such process" as alive.                                  *)
C15_OnlyEsrchIsDead ==
  unit.op = "is_process_exist" => (unit.output <=> unit.input[2] # "ESRCH")

(* C16: every active kernel lease of a Lease the daemon granted is held by *)
(* a Lease of the registry: a Lease is never discarded without revoking    *)
(* its kernel leases.                                                      *)
C16_NoOrphanKernelLease ==
  \A p \in DOMAIN granted : \A l \in kleases :
    <<l.card, l.lessee_id, l.fd>> \in Triples(granted[p])
      => \E s \in DOMAIN leases : <<l.card, l.lessee_id, l.fd>> \in Triples(leases[s])

(* what revoke_lease does to the kernel leases for a Lease when every      *)
(* revoke call succeeds                                                    *)
Revoked(lease) == revoke_loop(lease.infos, kleases, [c \in cards |-> TRUE], <<>>)

(* C17: in every Lease the daemon built, descriptors and infos have equal  *)
(* length and the i-th descriptor and the i-th (card path, lessee id)      *)
(* name one kernel lease, issued by that Card; releasing the Lease calls   *)
(* revoke for each lessee id on the Card of its own info and ends exactly  *)
(* the kernel leases of this Lease.                                        *)
C17_TriplesMatchIssuer ==
  \A p \in DOMAIN granted :
    LET lease == granted[p] IN
    /\ Len(lease.lease_fds) = Len(lease.infos)
    /\ \A i \in 1..Len(lease.infos) :
         {<<l.card, l.lessee_id>> : l \in {k \in kleases : k.fd = lease.lease_fds[i]}}
           = {<<lease.infos[i].card_node, lease.infos[i].lessee_id>>}
    /\ Revoked(lease).calls =
         [i \in 1..Len(lease.infos) |-> <<lease.infos[i].card_node, lease.infos[i].lessee_id>>]
    /\ kleases \ Revoked(lease).kl =
         {l \in kleases : <<l.card, l.lessee_id, l.fd>> \in Triples(lease)}

(* C17 witness: a Lease over two Cards whose kernels handed out the same   *)
(* lessee id, while a further kernel lease exists                          *)
C17_Witness ==
  \E p \in DOMAIN granted :
    /\ Len(granted[p].infos) = 2
    /\ granted[p].infos[1].lessee_id = granted[p].infos[2].lessee_id
    /\ Cardinality(kleases) > 2

(* C18: a RequestDisplays that does not end in LeaseGranted leaves no      *)
(* kernel lease behind that it created.                                    *)
C18_FailedGrantLeavesNoLease ==
  [][\A p \in Pids :
       (Exchange(p, "RequestDisplays") /\ resp'.msg # "LeaseGranted")
       => kleases' = kleases]_vars

(* no release is ever answered LeaseRevoked, no request SeatBusy *)
NeverRevokedNorBusy == resp.msg \notin {"LeaseRevoked", "SeatBusy", "NoPermission"}

(* C20: a connection of a process on seat S is handled for S: the Card     *)
(* registry and the displays stay as they are, the Lease of every other    *)
(* seat stays as it is, and kernel leases are created or revoked for S     *)
(* only.                                                                   *)
C20_SeatsIsolated ==
  [][\A p \in Pids :
       (Connection /\ resp'.pid = p)
       => (/\ resp'.seat = process_seat(p)
           /\ cards' = cards
           /\ displays' = displays
           /\ \A s \in Seats \ {process_seat(p)} :
                /\ (s \in DOMAIN leases) = (s \in DOMAIN leases')
                /\ s \in DOMAIN leases => leases'[s] = leases[s]
                /\ {l \in kleases' : l.seat = s} = {l \in kleases : l.seat = s})]_vars

(* C20 witness: seat0 was granted a lease while seat1 has a kernel lease *)
C20_Witness ==
  /\ resp.seat = "seat0"
  /\ resp.msg = "LeaseGranted"
  /\ resp.fds # <<>>
  /\ \E l \in kleases : l.seat = "seat1"
=============================================================================
